---- MODULE Spec2Model ----
(***************************************************************************)
(* One backward step of the parabolic PDE solver                           *)
(*   V_t + a V_xx + b V_x + c V = 0                                        *)
(* as implemented in                                                       *)
(*   tf_quant_finance/experimental/pde_v2/fd_backward_schemes/             *)
(*   parabolic_equation_stepper.py                                         *)
(*                                                                         *)
(* Tensors hold exact rationals <<num, den>> (den > 0, lowest terms); the   *)
(* pair <<0, 0>> stands for any non-finite float (inf, nan) and absorbs     *)
(* every operation.  A tensor of shape [K] is a sequence of K rationals, a *)
(* tensor of shape [K, M] a sequence of K rows of M rationals.  Python's   *)
(* None is the empty tuple.  A raised exception is a record whose status   *)
(* names the exception.                                                    *)
(***************************************************************************)
EXTENDS Integers, Sequences, FiniteSets, TLC

VARIABLES
  op,              \* the function under execution
  args,            \* its arguments
  pc,              \* "called" | "marching" | "after_step" | "returned" | "raised"
  calls,           \* the callbacks invoked so far, in order
  march_kwargs,    \* keyword arguments the marching routine received
  params,          \* what equation_params_fn last returned to the routine
  inner_grid_out,  \* what the marching routine returned
  result           \* the function's return value, or the exception raised

vars == <<op, args, pc, calls, march_kwargs, params, inner_grid_out, result>>

----------------------------------------------------------------------------
(* Bounds of the model.                                                    *)

MaxN == 4          \* largest grid size of a whole step (one more when a function is called alone)
MaxDelta == 2      \* largest first grid spacing
MaxBatch == 2      \* largest batch size K
MaxCalls == 1      \* calls of equation_params_fn one marching run makes

----------------------------------------------------------------------------
(* Exact arithmetic standing for the float arithmetic of the tensors.      *)

None == <<>>

Abs(x) == IF x < 0 THEN -x ELSE x

RECURSIVE GCD(_, _)
GCD(a, b) == IF b = 0 THEN a ELSE GCD(b, a % b)

NonFinite == <<0, 0>>

IsFinite(x) == x[2] # 0

Norm(n, d) ==
  IF d = 0 THEN NonFinite
  ELSE LET g == GCD(Abs(n), Abs(d))
           s == IF d < 0 THEN -1 ELSE 1
       IN  <<(s * n) \div g, (s * d) \div g>>

R(n) == <<n, 1>>

Zero == R(0)

\* x + y over the common denominator, g the gcd of the two denominators
AddOver(x, y, g) == Norm(x[1] * (y[2] \div g) + y[1] * (x[2] \div g), x[2] * (y[2] \div g))

RAdd(x, y) ==
  IF x[2] = 0 \/ y[2] = 0 THEN NonFinite
  ELSE AddOver(x, y, GCD(x[2], y[2]))

RNeg(x) == <<-x[1], x[2]>>

RSub(x, y) == RAdd(x, RNeg(y))

\* x * y with the common factors g1 of x[1], y[2] and g2 of y[1], x[2] cancelled
MulOver(x, y, g1, g2) == Norm((x[1] \div g1) * (y[1] \div g2), (x[2] \div g2) * (y[2] \div g1))

RMul(x, y) ==
  IF x[2] = 0 \/ y[2] = 0 THEN NonFinite
  ELSE MulOver(x, y, GCD(Abs(x[1]), y[2]), GCD(Abs(y[1]), x[2]))

Recip(y) == IF y[1] < 0 THEN <<-y[2], -y[1]>> ELSE <<y[2], y[1]>>

RDiv(x, y) ==
  IF x[2] = 0 \/ y[2] = 0 \/ y[1] = 0 THEN NonFinite
  ELSE RMul(x, Recip(y))

----------------------------------------------------------------------------
(* Slicing, element-wise arithmetic and concatenation of tensors.          *)

\* x[..., 1:-1], x[1:], x[:-1] on the last axis of one row
Inner(row) == SubSeq(row, 2, Len(row) - 1)
Tail1(row) == SubSeq(row, 2, Len(row))
Front(row) == SubSeq(row, 1, Len(row) - 1)

\* x[..., i] for a [K, M] tensor: Python index i (negative from the end);
\* InRange says whether the strided slice is within bounds
InRange(m, i) == IF i >= 0 THEN i < Len(m[1]) ELSE -i <= Len(m[1])
Col(m, i) == [k \in 1..Len(m) |-> IF i >= 0 THEN m[k][i + 1] ELSE m[k][Len(m[k]) + 1 + i]]

VScale(v, s) == [k \in 1..Len(v) |-> RMul(v[k], s)]
VDivS(v, s) == [k \in 1..Len(v) |-> RDiv(v[k], s)]
VAdd(v, w) == [k \in 1..Len(v) |-> RAdd(v[k], w[k])]
VAddS(v, s) == [k \in 1..Len(v) |-> RAdd(v[k], s)]

ZerosLike(m) == [k \in 1..Len(m) |-> [i \in 1..Len(m[k]) |-> Zero]]

_append_first_and_last(first, inner, last) ==
  [k \in 1..Len(inner) |-> <<first[k]>> \o inner[k] \o <<last[k]>>]

_append_first(first, rest) == [k \in 1..Len(rest) |-> <<first[k]>> \o rest[k]]

_append_last(rest, last) == [k \in 1..Len(rest) |-> rest[k] \o <<last[k]>>]

----------------------------------------------------------------------------
(* The exceptions the code can end in.                                     *)

ConfigError == "ValueError: Invalid boundary conditions: alpha and beta can't both be None."
NoneCallError == "TypeError: 'NoneType' object is not callable"
NoneValueError == "ValueError: None values not supported."
SliceError == "InvalidArgumentError: slice index out of bounds"

----------------------------------------------------------------------------
(* The callbacks the caller supplies.  A coefficient function is either    *)
(* None (present = FALSE) or returns c0 + cx*x + ct*t, as a scalar (rank   *)
(* 0, cx unused) or point-wise over the grid it is given (rank 1).  A       *)
(* boundary function returns (alpha, beta, g0 + g1*t); alpha or beta may    *)
(* be None.                                                                 *)

NoFn == [present |-> FALSE, rank |-> 0, c0 |-> 0, cx |-> 0, ct |-> 0]

Fn(rank, c0, cx, ct) == [present |-> TRUE, rank |-> rank, c0 |-> c0, cx |-> cx, ct |-> ct]

\* first_order_coeff_fn or (lambda *args: [0.0]);
\* zeroth_order_coeff_fn or (lambda *args: 0.0)
OrDefault(fn) == IF fn.present THEN fn ELSE Fn(0, 0, 0, 0)

CallCoeffFn(fn, t, coord_grid) ==
  IF fn.rank = 0
  THEN [rank |-> 0, scalar |-> R(fn.c0 + fn.ct * t), vector |-> <<>>]
  ELSE [rank |-> 1, scalar |-> Zero,
        vector |-> [i \in 1..Len(coord_grid) |-> R(fn.c0 + fn.cx * coord_grid[i] + fn.ct * t)]]

CallBoundaryFn(bc, t) ==
  [alpha |-> bc.alpha, beta |-> bc.beta, gamma |-> R(bc.g0 + bc.g1 * t)]

\* what a callback was called with: the time and the grid argument
WholeGrid(coord_grid) == [what |-> "coord_grid", coords |-> coord_grid]
FirstPoint(coord_grid) == [what |-> "coord_grid[0][0]", coords |-> <<coord_grid[1]>>]
Invocation(fn, t, grid) == [fn |-> fn, t |-> t, grid |-> grid]

----------------------------------------------------------------------------
(* The functions of the module, as operators.                              *)

\* coord_grid[0][1:] - coord_grid[0][:-1]
GridDeltas(coord_grid) == [i \in 1..(Len(coord_grid) - 1) |-> R(coord_grid[i + 1] - coord_grid[i])]

_prepare_pde_coeffs(raw_coeffs, value_grid) ==
  LET n == Len(value_grid[1])
      broadcast == [k \in 1..Len(value_grid) |->
                      IF raw_coeffs.rank = 0 THEN [i \in 1..n |-> raw_coeffs.scalar]
                      ELSE raw_coeffs.vector]
  IN  [k \in 1..Len(value_grid) |-> Inner(broadcast[k])]

\* the rule with the two spacings taken for one another in xi1 and xi2
RobinRuleSwapped(dx0, dx1, beta, gamma, denom) ==
  [status |-> "ok",
   xi1 |-> RDiv(RMul(RMul(beta, RAdd(dx0, dx1)), RAdd(dx0, dx1)), denom),
   xi2 |-> RDiv(RMul(RMul(RNeg(beta), dx1), dx1), denom),
   eta |-> RDiv(RMul(RMul(RMul(gamma, dx0), dx1), RAdd(dx0, dx1)), denom)]

\* lines 360-363: the rule, given the denominator
RobinRule(dx0, dx1, beta, gamma, denom) ==
  [status |-> "ok",
   xi1 |-> RDiv(RMul(RMul(beta, RAdd(dx0, dx1)), RAdd(dx0, dx1)), denom),
   xi2 |-> RDiv(RMul(RMul(RNeg(beta), dx0), dx0), denom),
   eta |-> RDiv(RMul(RMul(RMul(gamma, dx0), dx1), RAdd(dx0, dx1)), denom)]

\* lines 357-359
RobinDenom(dx0, dx1, alpha, beta) ==
  IF alpha # None
  THEN RAdd(RMul(RMul(beta, dx1), RAdd(RMul(R(2), dx0), dx1)),
            RMul(RMul(RMul(alpha, dx0), dx1), RAdd(dx0, dx1)))
  ELSE RMul(RMul(beta, dx1), RAdd(RMul(R(2), dx0), dx1))

\* the Dirichlet branch with ones in place of tf.zeros_like(gamma)
DiscretizeWithOnes(dx0, dx1, alpha, beta, gamma) ==
  IF beta = None
  THEN IF alpha = None
       THEN [status |-> ConfigError, xi1 |-> Zero, xi2 |-> Zero, eta |-> Zero]
       ELSE [status |-> "ok", xi1 |-> R(1), xi2 |-> R(1), eta |-> RDiv(gamma, alpha)]
  ELSE RobinRule(dx0, dx1, beta, gamma, RobinDenom(dx0, dx1, alpha, beta))

_discretize_boundary_conditions(dx0, dx1, alpha, beta, gamma) ==
  IF beta = None
  THEN IF alpha = None
       THEN [status |-> ConfigError, xi1 |-> Zero, xi2 |-> Zero, eta |-> Zero]
       ELSE [status |-> "ok", xi1 |-> Zero, xi2 |-> Zero, eta |-> RDiv(gamma, alpha)]
  ELSE RobinRule(dx0, dx1, beta, gamma, RobinDenom(dx0, dx1, alpha, beta))

\* lines 224-233 at one inner point with backward spacing h0, forward spacing
\* h1 and coefficient values a, b, c
Temp(h0, h1, a) == RDiv(RMul(R(2), a), RAdd(h1, h0))
\* the forward weight of V_xx divided by the backward spacing
DxdxCoef1Backward(h0, h1, a) == RDiv(Temp(h0, h1, a), h0)
DxdxCoef1(h0, h1, a) == RDiv(Temp(h0, h1, a), h1)
DxdxCoef2(h0, h1, a) == RDiv(Temp(h0, h1, a), h0)
DxCoef(h0, h1, b) == RDiv(b, RAdd(h1, h0))
UpperAt(h0, h1, a, b) == RSub(RNeg(DxCoef(h0, h1, b)), DxdxCoef1(h0, h1, a))
LowerAt(h0, h1, a, b) == RSub(DxCoef(h0, h1, b), DxdxCoef2(h0, h1, a))
DiagonalAt(h0, h1, a, b, c) == RSub(RSub(RNeg(c), UpperAt(h0, h1, a, b)), LowerAt(h0, h1, a, b))

\* lines 205-233: the three diagonals before the boundary conditions;
\* backward_deltas[i] = coord_grid_deltas[i], forward_deltas[i] = coord_grid_deltas[i+1]
Stencil(coord_grid_deltas, second_order_coeff, first_order_coeff, zeroth_order_coeff) ==
  [diagonal |->
     [k \in 1..Len(second_order_coeff) |-> [i \in 1..(Len(coord_grid_deltas) - 1) |->
        DiagonalAt(Front(coord_grid_deltas)[i], Tail1(coord_grid_deltas)[i],
                   second_order_coeff[k][i], first_order_coeff[k][i],
                   zeroth_order_coeff[k][i])]],
   upper_diagonal |->
     [k \in 1..Len(second_order_coeff) |-> [i \in 1..(Len(coord_grid_deltas) - 1) |->
        UpperAt(Front(coord_grid_deltas)[i], Tail1(coord_grid_deltas)[i],
                second_order_coeff[k][i], first_order_coeff[k][i])]],
   lower_diagonal |->
     [k \in 1..Len(second_order_coeff) |-> [i \in 1..(Len(coord_grid_deltas) - 1) |->
        LowerAt(Front(coord_grid_deltas)[i], Tail1(coord_grid_deltas)[i],
                second_order_coeff[k][i], first_order_coeff[k][i])]]]

NoEquation == [diagonal |-> <<>>, upper_diagonal |-> <<>>, lower_diagonal |-> <<>>,
               inhomog_term |-> <<>>]

\* the shortcut without the division by alpha
DirichletShortcutNoAlpha(bl, bu, diagonal, upper_diagonal, lower_diagonal) ==
  IF bl.alpha = None \/ bu.alpha = None
  THEN [status |-> NoneValueError, value |-> NoEquation]
  ELSE [status |-> "ok",
        value |-> [diagonal |-> diagonal, upper_diagonal |-> upper_diagonal,
                   lower_diagonal |-> lower_diagonal,
                   inhomog_term |-> _append_first_and_last(
                      VScale(Col(lower_diagonal, 0), bl.gamma),
                      ZerosLike([k \in 1..Len(diagonal) |-> Inner(diagonal[k])]),
                      VScale(Col(upper_diagonal, -1), bu.gamma))]]

\* lines 257-265: Dirichlet conditions on both boundaries
DirichletShortcut(bl, bu, diagonal, upper_diagonal, lower_diagonal) ==
  IF bl.alpha = None \/ bu.alpha = None
  THEN [status |-> NoneValueError, value |-> NoEquation]
  ELSE LET first_inhomog_element == VDivS(VScale(Col(lower_diagonal, 0), bl.gamma), bl.alpha)
           last_inhomog_element == VDivS(VScale(Col(upper_diagonal, -1), bu.gamma), bu.alpha)
           inhomog_term == _append_first_and_last(first_inhomog_element,
                             ZerosLike([k \in 1..Len(diagonal) |-> Inner(diagonal[k])]),
                             last_inhomog_element)
       IN  [status |-> "ok",
            value |-> [diagonal |-> diagonal, upper_diagonal |-> upper_diagonal,
                       lower_diagonal |-> lower_diagonal, inhomog_term |-> inhomog_term]]

\* the corrections with the last row's off-diagonal entry left as it was
CorrectedFirstRowOnly(lo, up, diagonal, upper_diagonal, lower_diagonal) ==
  IF lo.status # "ok" THEN [status |-> lo.status, value |-> NoEquation]
  ELSE IF up.status # "ok" THEN [status |-> up.status, value |-> NoEquation]
  ELSE [status |-> "ok",
        value |-> [diagonal |-> _append_first_and_last(
                      VAdd(Col(diagonal, 0), VScale(Col(lower_diagonal, 0), lo.xi1)),
                      [k \in 1..Len(diagonal) |-> Inner(diagonal[k])],
                      VAdd(Col(diagonal, -1), VScale(Col(upper_diagonal, -1), up.xi1))),
                   upper_diagonal |-> _append_first(
                      VAdd(Col(upper_diagonal, 0), VScale(Col(lower_diagonal, 0), lo.xi2)),
                      [k \in 1..Len(diagonal) |-> Tail1(upper_diagonal[k])]),
                   lower_diagonal |-> lower_diagonal,
                   inhomog_term |-> _append_first_and_last(
                      VScale(Col(lower_diagonal, 0), lo.eta),
                      ZerosLike([k \in 1..Len(diagonal) |-> Inner(diagonal[k])]),
                      VScale(Col(upper_diagonal, -1), up.eta))]]

\* lines 274-295: corrections to the first and the last row, given the two
\* rules lo = (xi1, xi2, eta) of the lower and up of the upper boundary
Corrected(lo, up, diagonal, upper_diagonal, lower_diagonal) ==
  LET diag_first_correction == VScale(Col(lower_diagonal, 0), lo.xi1)
      upper_diag_correction == VScale(Col(lower_diagonal, 0), lo.xi2)
      first_inhomog_element == VScale(Col(lower_diagonal, 0), lo.eta)
      diag_last_correction == VScale(Col(upper_diagonal, -1), up.xi1)
      lower_diag_correction == VScale(Col(upper_diagonal, -1), up.xi2)
      last_inhomog_element == VScale(Col(upper_diagonal, -1), up.eta)
      K == Len(diagonal)
      diagonal2 == _append_first_and_last(
                     VAdd(Col(diagonal, 0), diag_first_correction),
                     [k \in 1..K |-> Inner(diagonal[k])],
                     VAdd(Col(diagonal, -1), diag_last_correction))
      upper_diagonal2 == _append_first(
                     VAdd(Col(upper_diagonal, 0), upper_diag_correction),
                     [k \in 1..K |-> Tail1(upper_diagonal[k])])
      lower_diagonal2 == _append_last(
                     [k \in 1..K |-> Front(lower_diagonal[k])],
                     VAdd(Col(lower_diagonal, -1), lower_diag_correction))
      \* zeros_like(diagonal[..., 1:-1]) of the corrected diagonal
      zeros == ZerosLike([k \in 1..K |-> Inner(diagonal2[k])])
      inhomog_term == _append_first_and_last(first_inhomog_element, zeros,
                                             last_inhomog_element)
  IN  IF lo.status # "ok" THEN [status |-> lo.status, value |-> NoEquation]
      ELSE IF up.status # "ok" THEN [status |-> up.status, value |-> NoEquation]
      ELSE [status |-> "ok",
            value |-> [diagonal |-> diagonal2, upper_diagonal |-> upper_diagonal2,
                       lower_diagonal |-> lower_diagonal2, inhomog_term |-> inhomog_term]]

\* lines 270-295
RobinCorrections(bl, bu, coord_grid_deltas, diagonal, upper_diagonal, lower_diagonal) ==
  Corrected(
    _discretize_boundary_conditions(coord_grid_deltas[1], coord_grid_deltas[2],
                                    bl.alpha, bl.beta, bl.gamma),
    _discretize_boundary_conditions(coord_grid_deltas[Len(coord_grid_deltas)],
                                    coord_grid_deltas[Len(coord_grid_deltas) - 1],
                                    bu.alpha, bu.beta, bu.gamma),
    diagonal, upper_diagonal, lower_diagonal)

\* an outcome r together with the callbacks invoked on the way
WithCalls(r, made) == [status |-> r.status, value |-> r.value, calls |-> made]

\* lines 257-295, given the two boundary conditions
Discretized(bl, bu, coord_grid_deltas, diagonal, upper_diagonal, lower_diagonal) ==
  IF bl.beta = None /\ bu.beta = None
  THEN DirichletShortcut(bl, bu, diagonal, upper_diagonal, lower_diagonal)
  ELSE RobinCorrections(bl, bu, coord_grid_deltas, diagonal, upper_diagonal,
                        lower_diagonal)

_apply_boundary_conditions_to_discretized_equation(boundary_conditions, coord_grid, coord_grid_deltas, diagonal, upper_diagonal, lower_diagonal, t) ==
  WithCalls(
    Discretized(CallBoundaryFn(boundary_conditions[1], t),
                CallBoundaryFn(boundary_conditions[2], t),
                coord_grid_deltas, diagonal, upper_diagonal, lower_diagonal),
    << Invocation("lower_boundary_fn", t, WholeGrid(coord_grid)),
       Invocation("upper_boundary_fn", t, WholeGrid(coord_grid)) >>)

\* the callbacks lines 215-220 invoke, up to the first one that is None
CoeffCalls(coord_grid, t, absent) ==
  SubSeq(<< Invocation("second_order_coeff_fn", t, WholeGrid(coord_grid)),
            Invocation("first_order_coeff_fn", t, WholeGrid(coord_grid)),
            Invocation("zeroth_order_coeff_fn", t, WholeGrid(coord_grid)) >>,
         1, IF absent = 0 THEN 3 ELSE absent - 1)

\* the outcome r of the boundary conditions applied to the stencil st
Constructed(r, st, made) ==
  [status |-> r.status, value |-> r.value, calls |-> made \o r.calls, stencil |-> st]

\* lines 235-238
ApplyToStencil(st, boundary_conditions, coord_grid, coord_grid_deltas, t) ==
  Constructed(
    _apply_boundary_conditions_to_discretized_equation(
      boundary_conditions, coord_grid, coord_grid_deltas,
      st.diagonal, st.upper_diagonal, st.lower_diagonal, t),
    st, CoeffCalls(coord_grid, t, 0))

NoStencil == [diagonal |-> <<>>, upper_diagonal |-> <<>>, lower_diagonal |-> <<>>]

\* which of the three functions is None: calling it raises (0: none of them)
FirstAbsent(second_order_coeff_fn, first_order_coeff_fn, zeroth_order_coeff_fn) ==
  IF ~second_order_coeff_fn.present THEN 1
  ELSE IF ~first_order_coeff_fn.present THEN 2
  ELSE IF ~zeroth_order_coeff_fn.present THEN 3 ELSE 0

_construct_space_discretized_eqn_params(coord_grid, coord_grid_deltas, value_grid, boundary_conditions, second_order_coeff_fn, first_order_coeff_fn, zeroth_order_coeff_fn, t) ==
  IF FirstAbsent(second_order_coeff_fn, first_order_coeff_fn, zeroth_order_coeff_fn) # 0
  THEN [status |-> NoneCallError, value |-> NoEquation,
        calls |-> CoeffCalls(coord_grid, t,
                    FirstAbsent(second_order_coeff_fn, first_order_coeff_fn,
                                zeroth_order_coeff_fn)),
        stencil |-> NoStencil]
  ELSE ApplyToStencil(
         Stencil(coord_grid_deltas,
           _prepare_pde_coeffs(CallCoeffFn(second_order_coeff_fn, t, coord_grid), value_grid),
           _prepare_pde_coeffs(CallCoeffFn(first_order_coeff_fn, t, coord_grid), value_grid),
           _prepare_pde_coeffs(CallCoeffFn(zeroth_order_coeff_fn, t, coord_grid), value_grid)),
         boundary_conditions, coord_grid, coord_grid_deltas, t)

\* lines 313-322, given the two rules lo and up
Reconstructed(lo, up, inner_grid_out_, lower_call, upper_call) ==
  IF lo.status # "ok"
  THEN [status |-> lo.status, value |-> <<>>, calls |-> lower_call]
  ELSE IF ~InRange(inner_grid_out_, 1)
  THEN [status |-> SliceError, value |-> <<>>, calls |-> lower_call]
  ELSE IF up.status # "ok"
  THEN [status |-> up.status, value |-> <<>>, calls |-> lower_call \o upper_call]
  ELSE [status |-> "ok",
        value |-> _append_first_and_last(
                    VAddS(VAdd(VScale(Col(inner_grid_out_, 0), lo.xi1),
                               VScale(Col(inner_grid_out_, 1), lo.xi2)), lo.eta),
                    inner_grid_out_,
                    VAddS(VAdd(VScale(Col(inner_grid_out_, -1), up.xi1),
                               VScale(Col(inner_grid_out_, -2), up.xi2)), up.eta)),
        calls |-> lower_call \o upper_call]

\* lines 308-319, given the two boundary conditions at time_after_step
Rules(bl, bu, inner_grid_out_, coord_grid_deltas, lower_call, upper_call) ==
  Reconstructed(
    _discretize_boundary_conditions(coord_grid_deltas[1], coord_grid_deltas[2],
                                    bl.alpha, bl.beta, bl.gamma),
    _discretize_boundary_conditions(coord_grid_deltas[Len(coord_grid_deltas)],
                                    coord_grid_deltas[Len(coord_grid_deltas) - 1],
                                    bu.alpha, bu.beta, bu.gamma),
    inner_grid_out_, lower_call, upper_call)

_apply_boundary_conditions_after_step(inner_grid_out_, boundary_conditions, coord_grid, coord_grid_deltas, time_after_step) ==
  Rules(CallBoundaryFn(boundary_conditions[1], time_after_step),
        CallBoundaryFn(boundary_conditions[2], time_after_step),
        inner_grid_out_, coord_grid_deltas,
        << Invocation("lower_boundary_fn", time_after_step, FirstPoint(coord_grid)) >>,
        << Invocation("upper_boundary_fn", time_after_step, WholeGrid(coord_grid)) >>)

\* lines 160-174: the closure handed to the marching routine
equation_params_fn(a, t) ==
  _construct_space_discretized_eqn_params(
    a.coord_grid, GridDeltas(a.coord_grid), a.value_grid, a.boundary_conditions,
    a.second_order_coeff_fn, OrDefault(a.first_order_coeff_fn),
    OrDefault(a.zeroth_order_coeff_fn), t)

\* the banded matrix (diagonal, upper, lower) applied to one row v, plus r
TridiagApply(diagonal, upper, lower, r, v) ==
  [i \in 1..Len(v) |->
     RAdd(RAdd(RAdd(IF i > 1 THEN RMul(lower[i], v[i - 1]) ELSE Zero,
                    RMul(diagonal[i], v[i])),
               IF i < Len(v) THEN RMul(upper[i], v[i + 1]) ELSE Zero),
          r[i])]

\* a marching routine's answer that differs from its input at every point:
\* any field of the input's shape may come back
OtherField(inner) ==
  [k \in 1..Len(inner) |-> [i \in 1..Len(inner[k]) |-> RAdd(RMul(R(2), inner[k][i]), R(i))]]

----------------------------------------------------------------------------
(* The inputs.                                                             *)

\* a strictly increasing grid of n points from 0: uniform with spacing h,
\* or with spacings growing (h, h+1, ...) or shrinking (..., h+1, h)
MakeGrid(n, h, shape) ==
  [i \in 1..n |->
     CASE shape = "uniform" -> (i - 1) * h
       [] shape = "expanding" -> (i - 1) * h + ((i - 1) * (i - 2)) \div 2
       [] OTHER -> (i - 1) * (h + n - 1) - ((i - 1) * i) \div 2]

GridShapes == {"uniform", "expanding", "contracting"}

\* the grids of a whole step, and those a single function is called with
Grids == { MakeGrid(n, h, shape) : n \in 3..MaxN, h \in 1..MaxDelta, shape \in GridShapes }

UnitGrids == { MakeGrid(n, h, shape) : n \in 3..(MaxN + 1), h \in 1..MaxDelta, shape \in GridShapes }

\* the value grid of shape [K, n]: distinct inner values; the edge values
\* are 7 for an odd K and 0 for an even one
ValueGrid(K, n) ==
  [k \in 1..K |-> [i \in 1..n |-> IF i \in {1, n} THEN R(7 * (K % 2)) ELSE R(k + i)]]

BoundaryFn(alpha, beta, g0, g1) == [alpha |-> alpha, beta |-> beta, g0 |-> g0, g1 |-> g1]

Dirichlet(g0) == BoundaryFn(R(1), None, g0, 1)
Neumann(g0) == BoundaryFn(None, R(1), g0, 1)
Robin(g0) == BoundaryFn(R(2), R(1), g0, 1)
BothNone(g0) == BoundaryFn(None, None, g0, 1)

StepBoundaryFns(g0) == {Dirichlet(g0), Neumann(g0), Robin(g0), BothNone(g0)}

\* gamma is 3 + t at the lower edge and 5 + t at the upper edge
StepBoundaryConditions == StepBoundaryFns(3) \X StepBoundaryFns(5)

ZeroFn == Fn(1, 0, 0, 0)

StepSecondOrderFns == {NoFn, ZeroFn, Fn(1, 1, 1, 0)}
StepFirstOrderFns == {NoFn, Fn(0, 0, 0, 1)}
StepZerothOrderFns == {NoFn, Fn(1, 1, 0, 0)}

NoArg == [what |-> "none", coords |-> <<>>]
NoKwargs == [value_grid |-> <<>>, t1 |-> 0, t2 |-> 0, equation_params_fn |-> "", backwards |-> FALSE]
NoResult == [status |-> "none", value |-> <<>>]

Idle ==
  /\ pc = "called"
  /\ calls = <<>>
  /\ march_kwargs = NoKwargs
  /\ params = NoEquation
  /\ inner_grid_out = <<>>
  /\ result = NoResult

----------------------------------------------------------------------------
(* parabolic_equation_step                                                 *)

Init ==
  /\ op = "parabolic_equation_step"
  /\ \E g \in Grids, bc \in StepBoundaryConditions, a \in StepSecondOrderFns,
        b \in StepFirstOrderFns, c \in StepZerothOrderFns, K \in 1..MaxBatch :
       args = [time |-> 2, next_time |-> 1, coord_grid |-> g,
               value_grid |-> ValueGrid(K, Len(g)),
               boundary_conditions |-> bc, second_order_coeff_fn |-> a,
               first_order_coeff_fn |-> b, zeroth_order_coeff_fn |-> c]
  /\ Idle

\* value_grid[..., 1:-1]
InnerGridIn(a) == [k \in 1..Len(a.value_grid) |-> Inner(a.value_grid[k])]

\* the two times handed over the wrong way round
MarchKwargsSwapped(a) ==
  [value_grid |-> InnerGridIn(a), t1 |-> a.time, t2 |-> a.next_time,
   equation_params_fn |-> "equation_params_fn", backwards |-> TRUE]

\* lines 175-180: the keyword arguments of the call
MarchKwargs(a) ==
  [value_grid |-> InnerGridIn(a), t1 |-> a.next_time, t2 |-> a.time,
   equation_params_fn |-> "equation_params_fn", backwards |-> TRUE]

NumCalls(fn) == Cardinality({i \in 1..Len(calls) : calls[i].fn = fn})

\* lines 150-180: up to the call of time_marching_scheme
CallMarchingScheme ==
  /\ op = "parabolic_equation_step" /\ pc = "called"
  /\ march_kwargs' = MarchKwargs(args)
  /\ calls' = Append(calls, Invocation("time_marching_scheme", args.next_time, NoArg))
  /\ pc' = "marching"
  /\ UNCHANGED <<op, args, params, inner_grid_out, result>>

\* equation_params_fn(t) came back with r; an exception propagates
Evaluated(r, t) ==
  /\ calls' = Append(calls, Invocation("equation_params_fn", t, NoArg)) \o r.calls
  /\ IF r.status = "ok"
     THEN /\ params' = r.value
          /\ UNCHANGED <<pc, result>>
     ELSE /\ pc' = "raised"
          /\ result' = [status |-> r.status, value |-> <<>>]
          /\ UNCHANGED params

\* the routine evaluates equation_params_fn at one of its two times, marching
\* backwards: never at a later time than it did before
MarchEval ==
  /\ op = "parabolic_equation_step" /\ pc = "marching"
  /\ NumCalls("equation_params_fn") < MaxCalls
  /\ \E t \in {march_kwargs.t1, march_kwargs.t2} :
       /\ \A i \in 1..Len(calls) : calls[i].fn = "equation_params_fn" => t <= calls[i].t
       /\ Evaluated(equation_params_fn(args, t), t)
  /\ UNCHANGED <<op, args, march_kwargs, inner_grid_out>>

\* the routine returns its input unchanged
MarchReturnInput ==
  /\ op = "parabolic_equation_step" /\ pc = "marching"
  /\ inner_grid_out' = march_kwargs.value_grid
  /\ calls' = Append(calls, Invocation("return", march_kwargs.t1, NoArg))
  /\ pc' = "after_step"
  /\ UNCHANGED <<op, args, march_kwargs, params, result>>

\* the routine returns another field of the same shape
MarchReturnOther ==
  /\ op = "parabolic_equation_step" /\ pc = "marching"
  /\ inner_grid_out' = OtherField(march_kwargs.value_grid)
  /\ calls' = Append(calls, Invocation("return", march_kwargs.t1, NoArg))
  /\ pc' = "after_step"
  /\ UNCHANGED <<op, args, march_kwargs, params, result>>

\* lines 182-185, r being what _apply_boundary_conditions_after_step gave
Returned(r) ==
  /\ calls' = calls \o r.calls
  /\ pc' = IF r.status = "ok" THEN "returned" ELSE "raised"
  /\ result' = [status |-> r.status,
                value |-> IF r.status = "ok" THEN <<args.coord_grid, r.value>> ELSE <<>>]

ApplyBoundaryConditionsAfterStep ==
  /\ op = "parabolic_equation_step" /\ pc = "after_step"
  /\ Returned(_apply_boundary_conditions_after_step(
                inner_grid_out, args.boundary_conditions, args.coord_grid,
                GridDeltas(args.coord_grid), args.next_time))
  /\ UNCHANGED <<op, args, march_kwargs, params, inner_grid_out>>

Next ==
  \/ CallMarchingScheme
  \/ MarchEval
  \/ MarchReturnInput
  \/ MarchReturnOther
  \/ ApplyBoundaryConditionsAfterStep

Spec == Init /\ [][Next]_vars

----------------------------------------------------------------------------
(* _discretize_boundary_conditions, called on its own                      *)

Spacings == {R(h) : h \in 1..(MaxDelta + 1)} \cup {<<1, 2>>}
Alphas == {None, R(0), R(1), R(2), R(-1)}
Betas == {None, R(0), R(1), R(-1)}
Gammas == {R(0), R(1), R(3)}

InitDiscretize ==
  /\ op = "_discretize_boundary_conditions"
  /\ \E dx0 \in Spacings, dx1 \in Spacings, alpha \in Alphas, beta \in Betas,
        gamma \in Gammas :
       args = [dx0 |-> dx0, dx1 |-> dx1, alpha |-> alpha, beta |-> beta, gamma |-> gamma]
  /\ Idle

\* the call ended with r
Ended(r) ==
  /\ result' = r
  /\ pc' = IF r.status = "ok" THEN "returned" ELSE "raised"

CallDiscretize ==
  /\ op = "_discretize_boundary_conditions" /\ pc = "called"
  /\ Ended(_discretize_boundary_conditions(args.dx0, args.dx1, args.alpha, args.beta,
                                           args.gamma))
  /\ UNCHANGED <<op, args, calls, march_kwargs, params, inner_grid_out>>

\* the call ended with r, having invoked r.calls
EndedWithCalls(r) ==
  /\ result' = r
  /\ calls' = r.calls
  /\ pc' = IF r.status = "ok" THEN "returned" ELSE "raised"

(* _apply_boundary_conditions_after_step, called on its own with any inner  *)
(* grid                                                                      *)

InjectBoundaryFns(g0) ==
  { BoundaryFn(alpha, beta, g0, 1) : alpha \in {None, R(1), R(2)}, beta \in {None, R(0), R(1)} }

InitAfterStep ==
  /\ op = "_apply_boundary_conditions_after_step"
  /\ \E g \in UnitGrids, bl \in InjectBoundaryFns(3), bu \in InjectBoundaryFns(5),
        K \in 1..MaxBatch :
       args = [inner_grid_out |-> [k \in 1..K |-> [i \in 1..(Len(g) - 2) |-> R(k + i * i)]],
               boundary_conditions |-> <<bl, bu>>, coord_grid |-> g,
               time_after_step |-> 1]
  /\ Idle

CallAfterStep ==
  /\ op = "_apply_boundary_conditions_after_step" /\ pc = "called"
  /\ EndedWithCalls(_apply_boundary_conditions_after_step(
       args.inner_grid_out, args.boundary_conditions, args.coord_grid,
       GridDeltas(args.coord_grid), args.time_after_step))
  /\ UNCHANGED <<op, args, march_kwargs, params, inner_grid_out>>

InitBoundary == InitDiscretize \/ InitAfterStep

NextBoundary == CallDiscretize \/ CallAfterStep

SpecBoundary == InitBoundary /\ [][NextBoundary]_vars

----------------------------------------------------------------------------
(* equation_params_fn, called on its own at a time t                       *)

ParamsSecondOrderFns == {NoFn} \cup {Fn(1, c0, cx, 0) : c0 \in 0..2, cx \in 0..1}
ParamsFirstOrderFns == {NoFn, Fn(0, 1, 0, 1)} \cup {Fn(1, c0, cx, 0) : c0 \in -1..0, cx \in 0..1}
ParamsZerothOrderFns == {NoFn, Fn(0, 0, 0, 0), Fn(0, 1, 0, 1)}

ParamsBoundaryConditions == { <<Dirichlet(3), Dirichlet(5)>>, <<Robin(3), Neumann(5)>> }

InitParams ==
  /\ op = "equation_params_fn"
  /\ \E g \in UnitGrids, bc \in ParamsBoundaryConditions, a \in ParamsSecondOrderFns,
        b \in ParamsFirstOrderFns, c \in ParamsZerothOrderFns, K \in 1..MaxBatch :
       args = [time |-> 2, next_time |-> 1, coord_grid |-> g,
               value_grid |-> [k \in 1..K |-> [i \in 1..Len(g) |-> R(k + i)]],
               boundary_conditions |-> bc, second_order_coeff_fn |-> a,
               first_order_coeff_fn |-> b, zeroth_order_coeff_fn |-> c, t |-> 2]
  /\ Idle

CallEquationParams ==
  /\ op = "equation_params_fn" /\ pc = "called"
  /\ EndedWithCalls(equation_params_fn(args, args.t))
  /\ UNCHANGED <<op, args, march_kwargs, params, inner_grid_out>>

NextParams == CallEquationParams

SpecParams == InitParams /\ [][NextParams]_vars

----------------------------------------------------------------------------
(* _apply_boundary_conditions_to_discretized_equation, called on its own    *)
(* with any three diagonals                                                 *)

\* three diagonals of shape [K, M]
Diagonals(K, M) ==
  { [diagonal |-> [k \in 1..K |-> [i \in 1..M |-> R(p + k + i)]],
     upper_diagonal |-> [k \in 1..K |-> [i \in 1..M |-> R(-1 - i - p * k)]],
     lower_diagonal |-> [k \in 1..K |-> [i \in 1..M |-> R(p - i - k)]]] : p \in 0..1 }

InitInject ==
  /\ op = "_apply_boundary_conditions_to_discretized_equation"
  /\ \E g \in UnitGrids, bl \in InjectBoundaryFns(3), bu \in InjectBoundaryFns(5),
        K \in 1..MaxBatch :
       \E d \in Diagonals(K, Len(g) - 2) :
          args = [boundary_conditions |-> <<bl, bu>>, coord_grid |-> g,
                  diagonal |-> d.diagonal, upper_diagonal |-> d.upper_diagonal,
                  lower_diagonal |-> d.lower_diagonal, t |-> 2]
  /\ Idle

CallApplyBoundaryConditions ==
  /\ op = "_apply_boundary_conditions_to_discretized_equation" /\ pc = "called"
  /\ EndedWithCalls(_apply_boundary_conditions_to_discretized_equation(
       args.boundary_conditions, args.coord_grid, GridDeltas(args.coord_grid),
       args.diagonal, args.upper_diagonal, args.lower_diagonal, args.t))
  /\ UNCHANGED <<op, args, march_kwargs, params, inner_grid_out>>

NextInject == CallApplyBoundaryConditions

SpecInject == InitInject /\ [][NextInject]_vars

----------------------------------------------------------------------------
(* What the claims speak of.                                               *)

IsStep == op = "parabolic_equation_step"

Finished == pc \in {"returned", "raised"}

\* alpha = None and beta = None at once
BothNoneAt(bc) == bc.alpha = None /\ bc.beta = None

ValidBoundaries(a) ==
  ~BothNoneAt(a.boundary_conditions[1]) /\ ~BothNoneAt(a.boundary_conditions[2])

\* the grid has the two nearest inner points the extrapolation rule reads
TwoInnerPoints(coord_grid) == Len(coord_grid) >= 4

GammaAt(bc, t) == R(bc.g0 + bc.g1 * t)

BoundaryFnNames == {"lower_boundary_fn", "upper_boundary_fn"}

\* the outward normal derivative at the boundary of the quadratic through
\* v0 at the boundary, v1 at distance dx0 and v2 at distance dx0 + dx1
NormalDerivative(dx0, dx1, v0, v1, v2) ==
  RAdd(RSub(RDiv(RMul(v0, RAdd(RMul(R(2), dx0), dx1)), RMul(dx0, RAdd(dx0, dx1))),
            RDiv(RMul(v1, RAdd(dx0, dx1)), RMul(dx0, dx1))),
       RDiv(RMul(v2, dx0), RMul(dx1, RAdd(dx0, dx1))))

\* alpha*v0 + beta*V_n = gamma, an absent alpha counting as zero
RobinHolds(alpha, beta, gamma, dx0, dx1, v0, v1, v2) ==
  RAdd(IF alpha = None THEN Zero ELSE RMul(alpha, v0),
       RMul(beta, NormalDerivative(dx0, dx1, v0, v1, v2))) = gamma

\* the boundary value v0 next to the inner values v1, v2 is what the
\* condition (alpha, beta, gamma) fixes
BoundaryValueFits(alpha, beta, gamma, dx0, dx1, v0, v1, v2) ==
  IF beta = None THEN v0 = RDiv(gamma, alpha)
  ELSE IsFinite(v0) => RobinHolds(alpha, beta, gamma, dx0, dx1, v0, v1, v2)

----------------------------------------------------------------------------
\* C1: for every grid and batch size and every combination of present and
\* absent coefficient functions, a step whose boundary conditions are valid
\* returns the grid it was given and a value grid of the input's shape [K, N].
\* (Stated for grids with two inner points, where the step can end at all.)
C1_ShapePreserved ==
  (IsStep /\ Finished /\ ValidBoundaries(args) /\ TwoInnerPoints(args.coord_grid)) =>
     /\ pc = "returned"
     /\ result.value[1] = args.coord_grid
     /\ Len(result.value[2]) = Len(args.value_grid)
     /\ \A k \in 1..Len(args.value_grid) :
          Len(result.value[2][k]) = Len(args.value_grid[k])

\* C2: with a = b = c = 0, Dirichlet conditions alpha = 1, beta = None at
\* both edges and a marching routine that returns its input, the step
\* returns g_lower(next_time) and g_upper(next_time) at the two edges and the
\* input's inner values in between, whatever the input's edge values were
\* (on a grid with the two inner points next to each edge).
IsDirichletOne(bc) == bc.alpha = R(1) /\ bc.beta = None

IsZeroFn(fn) == ~fn.present \/ (fn.c0 = 0 /\ fn.cx = 0 /\ fn.ct = 0)

DirichletIdentityCase ==
  /\ IsStep /\ Finished
  /\ IsDirichletOne(args.boundary_conditions[1])
  /\ IsDirichletOne(args.boundary_conditions[2])
  /\ args.second_order_coeff_fn.present /\ IsZeroFn(args.second_order_coeff_fn)
  /\ IsZeroFn(args.first_order_coeff_fn) /\ IsZeroFn(args.zeroth_order_coeff_fn)
  /\ inner_grid_out = march_kwargs.value_grid
  /\ TwoInnerPoints(args.coord_grid)

C3_ConfigErrorEverywhere ==
  ( /\ IsStep
    /\ BothNoneAt(args.boundary_conditions[1]) \/ BothNoneAt(args.boundary_conditions[2])
    /\ args.second_order_coeff_fn.present
    /\ TwoInnerPoints(args.coord_grid)
    /\ NumCalls("equation_params_fn") > 0 \/ Finished )
  => (pc = "raised" /\ result.status = ConfigError)

\* C8: every step invokes the marching routine exactly once and before any
\* boundary evaluation after the step; the routine receives the input without
\* its two edge columns, t1 = the step's second (earlier) time, t2 = its
\* first (later) time and the generator; the inner columns of the returned
\* grid are what the routine returned, and each new edge value is the one the
\* boundary condition at next_time fixes next to the routine's values.
C8_MarchingSchemeCalledOnce ==
  IsStep =>
    /\ NumCalls("time_marching_scheme") = (IF pc = "called" THEN 0 ELSE 1)
    /\ NumCalls("return") <= 1
    /\ pc # "called" =>
         /\ calls[1].fn = "time_marching_scheme"
         /\ march_kwargs.value_grid =
              [k \in 1..Len(args.value_grid) |->
                 [i \in 1..(Len(args.coord_grid) - 2) |-> args.value_grid[k][i + 1]]]
         /\ march_kwargs.t1 = args.next_time /\ march_kwargs.t2 = args.time
         /\ march_kwargs.t1 < march_kwargs.t2
         /\ march_kwargs.equation_params_fn = "equation_params_fn"
    /\ NumCalls("return") = 0 =>
         \A f \in BoundaryFnNames : NumCalls(f) <= NumCalls("equation_params_fn")
    /\ pc = "returned" =>
         LET n == Len(args.coord_grid)
             d == GridDeltas(args.coord_grid)
             bl == args.boundary_conditions[1]
             bu == args.boundary_conditions[2]
         IN  \A k \in 1..Len(inner_grid_out) :
               LET row == result.value[2][k]
               IN  /\ Inner(row) = inner_grid_out[k]
                   /\ BoundaryValueFits(bl.alpha, bl.beta, GammaAt(bl, args.next_time),
                                        d[1], d[2], row[1], inner_grid_out[k][1],
                                        inner_grid_out[k][2])
                   /\ BoundaryValueFits(bu.alpha, bu.beta, GammaAt(bu, args.next_time),
                                        d[n - 1], d[n - 2], row[n], inner_grid_out[k][n - 2],
                                        inner_grid_out[k][n - 3])

C8_Witness ==
  /\ IsStep /\ pc = "returned"
  /\ inner_grid_out # march_kwargs.value_grid
  /\ NumCalls("equation_params_fn") > 0
  /\ args.boundary_conditions[1].beta # None
  /\ args.boundary_conditions[2].beta = None

\* C9: every invocation of a boundary function, at either edge, receives the
\* evaluation time and the coordinate grid the step was given; each edge's
\* function is invoked once per call of equation_params_fn, at that call's
\* time, and once more after the marching routine returned, at next_time.
C9_BoundaryFnsGetTheGrid ==
  IsStep =>
    /\ \A i \in 1..Len(calls) :
         calls[i].fn \in BoundaryFnNames => calls[i].grid = WholeGrid(args.coord_grid)
    /\ pc = "returned" =>
         \A f \in BoundaryFnNames :
           /\ NumCalls(f) = NumCalls("equation_params_fn") + 1
           /\ \A t \in {args.time, args.next_time} :
                Cardinality({i \in 1..Len(calls) : calls[i].fn = f /\ calls[i].t = t})
                  = Cardinality({i \in 1..Len(calls) :
                                   calls[i].fn = "equation_params_fn" /\ calls[i].t = t})
                    + (IF t = args.next_time THEN 1 ELSE 0)

----------------------------------------------------------------------------
\* C4: each of the three coefficient functions may be None, and a None
\* function behaves as the function that is zero everywhere: the call of
\* equation_params_fn raises nothing and returns the stencil, the operator
\* and the inhomogeneous term it returns with the zero function in its place.
CoeffFnNames == {"second_order_coeff_fn", "first_order_coeff_fn", "zeroth_order_coeff_fn"}

SameAsWith(z) ==
  /\ z.status = "ok"
  /\ result.value = z.value
  /\ result.stencil = z.stencil

C4_AbsentIsZero ==
  (op = "equation_params_fn" /\ pc # "called") =>
     \A which \in CoeffFnNames :
        ~args[which].present =>
           /\ result.status = "ok"
           /\ SameAsWith(equation_params_fn([args EXCEPT ![which] = ZeroFn], args.t))

\* C5: at every inner point with backward spacing h0 and forward spacing h1
\* and coefficient values a, b, c there, the stencil computed before the
\* boundary conditions is upper = -(b/(h0+h1) + 2a/((h0+h1) h1)),
\* lower = b/(h0+h1) - 2a/((h0+h1) h0), diag = -c - upper - lower; where
\* h0 = h1 = h it is diag = -c + 2a/h^2, upper = -(b/(2h) + a/h^2),
\* lower = b/(2h) - a/h^2.
CoeffAt(fn, t, x) ==
  IF ~fn.present THEN Zero
  ELSE IF fn.rank = 0 THEN R(fn.c0 + fn.ct * t)
  ELSE R(fn.c0 + fn.cx * x + fn.ct * t)

StencilPointIs(h0, h1, a, b, c, diag, upper, lower) ==
  /\ upper = RNeg(RAdd(RDiv(b, RAdd(h0, h1)),
                       RDiv(RMul(R(2), a), RMul(RAdd(h0, h1), h1))))
  /\ lower = RSub(RDiv(b, RAdd(h0, h1)),
                  RDiv(RMul(R(2), a), RMul(RAdd(h0, h1), h0)))
  /\ diag = RSub(RSub(RNeg(c), upper), lower)
  /\ h0 = h1 =>
       /\ diag = RAdd(RNeg(c), RDiv(RMul(R(2), a), RMul(h0, h0)))
       /\ upper = RNeg(RAdd(RDiv(b, RMul(R(2), h0)), RDiv(a, RMul(h0, h0))))
       /\ lower = RSub(RDiv(b, RMul(R(2), h0)), RDiv(a, RMul(h0, h0)))

C5_Stencil ==
  (op = "equation_params_fn" /\ pc = "returned") =>
     \A k \in 1..Len(args.value_grid) :
        /\ Len(result.stencil.diagonal[k]) = Len(args.coord_grid) - 2
        /\ Len(result.stencil.upper_diagonal[k]) = Len(args.coord_grid) - 2
        /\ Len(result.stencil.lower_diagonal[k]) = Len(args.coord_grid) - 2
        /\ \A i \in 1..(Len(args.coord_grid) - 2) :
             StencilPointIs(R(args.coord_grid[i + 1] - args.coord_grid[i]),
                            R(args.coord_grid[i + 2] - args.coord_grid[i + 1]),
                            CoeffAt(args.second_order_coeff_fn, args.t, args.coord_grid[i + 1]),
                            CoeffAt(args.first_order_coeff_fn, args.t, args.coord_grid[i + 1]),
                            CoeffAt(args.zeroth_order_coeff_fn, args.t, args.coord_grid[i + 1]),
                            result.stencil.diagonal[k][i],
                            result.stencil.upper_diagonal[k][i],
                            result.stencil.lower_diagonal[k][i])

C5_Witness ==
  /\ op = "equation_params_fn" /\ pc = "returned"
  /\ args.coord_grid = <<0, 1, 3, 6>>
  /\ args.second_order_coeff_fn = Fn(1, 1, 1, 0)
  /\ args.first_order_coeff_fn = Fn(0, 1, 0, 1)
  /\ args.zeroth_order_coeff_fn = Fn(0, 1, 0, 1)
  /\ result.stencil.upper_diagonal[1][1] = <<-5, 3>>
  /\ result.stencil.lower_diagonal[1][1] = <<-1, 3>>

\* C7: for positive spacings dx0, dx1, a condition (alpha, beta, gamma) with
\* beta present and a nonzero denominator and any inner values v1, v2, the
\* value v0 = xi1*v1 + xi2*v2 + eta of the rule satisfies
\* alpha*v0 + beta*V_n = gamma, V_n being the outward normal derivative of
\* the quadratic through v0, v1, v2, and no other value does; the
\* reconstruction after the step applies the rule at the lower edge to the
\* first two spacings and inner values and at the upper edge to the last two,
\* mirrored.
SampleValues == {R(0), R(1), R(-2), <<1, 2>>}

OnlyValue(alpha, beta, gamma, dx0, dx1, v0, v1, v2) ==
  /\ RobinHolds(alpha, beta, gamma, dx0, dx1, v0, v1, v2)
  /\ \A d \in {R(1), R(-1), <<1, 3>>} :
       ~RobinHolds(alpha, beta, gamma, dx0, dx1, RAdd(v0, d), v1, v2)

RobinEdges(a) == a.boundary_conditions[1].beta # None /\ a.boundary_conditions[2].beta # None

C7_RobinRelation ==
  /\ (op = "_discretize_boundary_conditions" /\ pc = "returned" /\ args.beta # None
        /\ IsFinite(result.xi1)) =>
       \A v1 \in SampleValues, v2 \in SampleValues :
          OnlyValue(args.alpha, args.beta, args.gamma, args.dx0, args.dx1,
                    RAdd(RAdd(RMul(result.xi1, v1), RMul(result.xi2, v2)), result.eta),
                    v1, v2)
  /\ (op = "_apply_boundary_conditions_after_step" /\ pc = "returned") =>
       \A k \in 1..Len(args.inner_grid_out) :
          LET row == result.value[k]
              n == Len(args.coord_grid)
              d == GridDeltas(args.coord_grid)
              bl == args.boundary_conditions[1]
              bu == args.boundary_conditions[2]
          IN  /\ Len(row) = n
              /\ Inner(row) = args.inner_grid_out[k]
              /\ (bl.beta # None /\ IsFinite(row[1])) =>
                    OnlyValue(bl.alpha, bl.beta, GammaAt(bl, args.time_after_step),
                              d[1], d[2], row[1], row[2], row[3])
              /\ (bu.beta # None /\ IsFinite(row[n])) =>
                    OnlyValue(bu.alpha, bu.beta, GammaAt(bu, args.time_after_step),
                              d[n - 1], d[n - 2], row[n], row[n - 1], row[n - 2])

C7_Witness ==
  /\ op = "_apply_boundary_conditions_after_step" /\ pc = "returned"
  /\ RobinEdges(args)
  /\ args.boundary_conditions[1].alpha = R(2)
  /\ args.boundary_conditions[2].alpha = None
  /\ args.coord_grid = <<0, 1, 3, 6, 10>>
  /\ IsFinite(result.value[1][1]) /\ IsFinite(result.value[1][5])

----------------------------------------------------------------------------
IsInject == op = "_apply_boundary_conditions_to_discretized_equation"

\* the two boundary conditions the call evaluated
LowerCondition == CallBoundaryFn(args.boundary_conditions[1], args.t)

UpperCondition == CallBoundaryFn(args.boundary_conditions[2], args.t)

\* C6: for a pair of Dirichlet conditions (beta absent at both edges, alpha
\* nonzero) and any three diagonals, the shortcut returns what the Robin
\* formulas give with beta = 0 at both edges: the three diagonals as they
\* were given, and an inhomogeneous term with lower[0]*gamma_l/alpha_l first,
\* upper[-1]*gamma_u/alpha_u last and zeros in between (on a grid with at
\* least two inner points, so that the stencil has a first and a last row).
DirichletPair ==
  /\ IsInject /\ pc = "returned"
  /\ LowerCondition.beta = None /\ UpperCondition.beta = None
  /\ LowerCondition.alpha # Zero /\ UpperCondition.alpha # Zero
  /\ TwoInnerPoints(args.coord_grid)

SameAsRobin(general) ==
  /\ general.status = "ok"
  /\ result.value = general.value

C6_ShortcutIsRobinLimit ==
  DirichletPair =>
    /\ SameAsRobin(RobinCorrections([LowerCondition EXCEPT !.beta = Zero],
                                    [UpperCondition EXCEPT !.beta = Zero],
                                    GridDeltas(args.coord_grid), args.diagonal,
                                    args.upper_diagonal, args.lower_diagonal))
    /\ result.value.diagonal = args.diagonal
    /\ result.value.upper_diagonal = args.upper_diagonal
    /\ result.value.lower_diagonal = args.lower_diagonal
    /\ \A k \in 1..Len(args.diagonal) :
         LET r == result.value.inhomog_term[k]
             M == Len(args.diagonal[k])
         IN  /\ Len(r) = M
             /\ r[1] = RDiv(RMul(args.lower_diagonal[k][1], LowerCondition.gamma),
                            LowerCondition.alpha)
             /\ r[M] = RDiv(RMul(args.upper_diagonal[k][M], UpperCondition.gamma),
                            UpperCondition.alpha)
             /\ \A i \in 2..(M - 1) : r[i] = Zero

C6_Witness ==
  /\ DirichletPair
  /\ LowerCondition.alpha = R(2) /\ UpperCondition.alpha = R(1)
  /\ Len(args.coord_grid) = 5
  /\ result.value.inhomog_term[1][1] # Zero
  /\ result.value.inhomog_term[1][3] # Zero

\* C10: on the general path, for every inner vector v, the corrected system
\* A'v + r equals at each row the given stencil row applied to
\* [v_lo, v, v_hi], v_lo and v_hi being the values each edge's rule
\* (xi1, xi2, eta) gives from the two nearest inner values; only the first
\* row's diagonal (+lower[0]*xi1) and upper entry (+lower[0]*xi2), the last
\* row's diagonal (+upper[-1]*xi1) and lower entry (+upper[-1]*xi2) change,
\* and the inhomogeneous term is lower[0]*eta, zeros, upper[-1]*eta (on a
\* grid with the two nearest inner values at each edge, the rules finite).
GeneralPath ==
  /\ IsInject /\ pc = "returned"
  /\ LowerCondition.beta # None \/ UpperCondition.beta # None
  /\ TwoInnerPoints(args.coord_grid)

LowerRule ==
  _discretize_boundary_conditions(GridDeltas(args.coord_grid)[1],
                                  GridDeltas(args.coord_grid)[2],
                                  LowerCondition.alpha, LowerCondition.beta,
                                  LowerCondition.gamma)

UpperRule ==
  _discretize_boundary_conditions(GridDeltas(args.coord_grid)[Len(args.coord_grid) - 1],
                                  GridDeltas(args.coord_grid)[Len(args.coord_grid) - 2],
                                  UpperCondition.alpha, UpperCondition.beta,
                                  UpperCondition.gamma)

FiniteRule(rule) == IsFinite(rule.xi1) /\ IsFinite(rule.xi2) /\ IsFinite(rule.eta)

\* the inner vectors: zero, the unit vectors and one with no zero entry
SampleVectors(M) ==
  {[i \in 1..M |-> Zero]} \cup {[i \in 1..M |-> R(IF i = j THEN 1 ELSE 0)] : j \in 1..M}
    \cup {[i \in 1..M |-> R(2 * i - 3)]}

\* v with the two boundary values of the rules around it
Extended(lo, up, v) ==
  <<RAdd(RAdd(RMul(lo.xi1, v[1]), RMul(lo.xi2, v[2])), lo.eta)>> \o v \o
  <<RAdd(RAdd(RMul(up.xi1, v[Len(v)]), RMul(up.xi2, v[Len(v) - 1])), up.eta)>>

\* row i of the given stencil applied to the extended vector w
StencilRow(k, i, w) ==
  RAdd(RAdd(RMul(args.lower_diagonal[k][i], w[i]), RMul(args.diagonal[k][i], w[i + 1])),
       RMul(args.upper_diagonal[k][i], w[i + 2]))

OnlyEdgesTouched(lo, up, k, M) ==
  /\ result.value.diagonal[k] =
       [i \in 1..M |->
          IF i = 1 THEN RAdd(args.diagonal[k][1], RMul(args.lower_diagonal[k][1], lo.xi1))
          ELSE IF i = M THEN RAdd(args.diagonal[k][M], RMul(args.upper_diagonal[k][M], up.xi1))
          ELSE args.diagonal[k][i]]
  /\ result.value.upper_diagonal[k] =
       [i \in 1..M |->
          IF i = 1 THEN RAdd(args.upper_diagonal[k][1], RMul(args.lower_diagonal[k][1], lo.xi2))
          ELSE args.upper_diagonal[k][i]]
  /\ result.value.lower_diagonal[k] =
       [i \in 1..M |->
          IF i = M THEN RAdd(args.lower_diagonal[k][M], RMul(args.upper_diagonal[k][M], up.xi2))
          ELSE args.lower_diagonal[k][i]]
  /\ result.value.inhomog_term[k] =
       [i \in 1..M |->
          IF i = 1 THEN RMul(args.lower_diagonal[k][1], lo.eta)
          ELSE IF i = M THEN RMul(args.upper_diagonal[k][M], up.eta)
          ELSE Zero]

C10_CorrectedSystem ==
  (GeneralPath /\ FiniteRule(LowerRule) /\ FiniteRule(UpperRule)) =>
     \A k \in 1..Len(args.diagonal) :
        /\ OnlyEdgesTouched(LowerRule, UpperRule, k, Len(args.diagonal[k]))
        /\ \A v \in SampleVectors(Len(args.diagonal[k])) :
             TridiagApply(result.value.diagonal[k], result.value.upper_diagonal[k],
                          result.value.lower_diagonal[k], result.value.inhomog_term[k], v)
               = [i \in 1..Len(v) |-> StencilRow(k, i, Extended(LowerRule, UpperRule, v))]

C10_Witness ==
  /\ GeneralPath /\ FiniteRule(LowerRule) /\ FiniteRule(UpperRule)
  /\ LowerCondition.alpha = R(2) /\ LowerCondition.beta = R(1)
  /\ UpperCondition.beta = None
  /\ args.coord_grid = <<0, 1, 3, 6, 10>>
  /\ result.value.diagonal[1][1] # args.diagonal[1][1]
  /\ result.value.upper_diagonal[1][1] # args.upper_diagonal[1][1]
  /\ result.value.diagonal[1][2] = args.diagonal[1][2]

----------------------------------------------------------------------------
\* C11: for every grid of N >= 3 points, every batch size and both the
\* Dirichlet shortcut and the general path, the diagonal, the upper and the
\* lower diagonal and the inhomogeneous term equation_params_fn returns all
\* have N - 2 entries per row, as many as the inner value grid.
RowLengths(k) ==
  << Len(result.value.diagonal[k]), Len(result.value.upper_diagonal[k]),
     Len(result.value.lower_diagonal[k]), Len(result.value.inhomog_term[k]) >>

C11_SameLengths ==
  (op = "equation_params_fn" /\ pc = "returned" /\ Len(args.coord_grid) >= 3) =>
     \A k \in 1..Len(args.value_grid) :
        LET m == Len(Inner(args.value_grid[k]))
        IN  /\ m = Len(args.coord_grid) - 2
            /\ RowLengths(k) = <<m, m, m, m>>

====
